---- MODULE Spec2Model ----
(***************************************************************************)
(* A model of the YouTube transcript server                                *)
(* (src/src/youtube_transcript_mcp_server.py): the video reference         *)
(* resolver (extract_video_id, validate_video_id), the retry loop of       *)
(* fetch_transcript_with_retry over the captioning provider, the renderers *)
(* and the four public operations.                                         *)
(*                                                                         *)
(* Python strings are TLA+ strings: Len, \o and SubSeq act on them as on   *)
(* sequences of characters, and "\n" is one character.                     *)
(***************************************************************************)
EXTENDS Integers, Sequences, FiniteSets, TLC

-----------------------------------------------------------------------------
(* Characters and the character classes of the regular expressions.        *)

\* The i-th character of s (1-based), as a one-character string.
Ch(s, i) == SubSeq(s, i, i)

\* The characters of s from position i to its end.
From(s, i) == SubSeq(s, i, Len(s))

\* s has the literal lit at position i.
HasAt(s, i, lit) ==
    i + Len(lit) - 1 <= Len(s) /\ SubSeq(s, i, i + Len(lit) - 1) = lit

Lower == {"a","b","c","d","e","f","g","h","i","j","k","l","m",
          "n","o","p","q","r","s","t","u","v","w","x","y","z"}
Upper == {"A","B","C","D","E","F","G","H","I","J","K","L","M",
          "N","O","P","Q","R","S","T","U","V","W","X","Y","Z"}
Digit == {"0","1","2","3","4","5","6","7","8","9"}

\* [a-zA-Z0-9_-]
IdChar == Lower \cup Upper \cup Digit \cup {"_", "-"}

\* \s for the characters the model uses
Space == {" ", "\t", "\n", "\r", "\f"}

\* Python's $ without re.MULTILINE: at the end of the string, or just before
\* a newline that is the string's last character.  i is the position of the
\* next character to read.
AtDollar(s, i) ==
    \/ i = Len(s) + 1
    \/ i = Len(s) /\ Ch(s, i) = "\n"

\* The characters of s at positions i..j are all of class cls.
AllIn(s, i, j, cls) == \A k \in i..j : Ch(s, k) \in cls

\* The length of the longest run of characters of s, from position i, none
\* of which is in the set stop (a greedy [^...]* ).
RECURSIVE RunNotIn(_, _, _)
RunNotIn(s, i, stop) ==
    IF i > Len(s) \/ Ch(s, i) \in stop THEN 0 ELSE 1 + RunNotIn(s, i + 1, stop)

Max(S) == CHOOSE x \in S : \A y \in S : y <= x
Min(S) == CHOOSE x \in S : \A y \in S : x <= y

-----------------------------------------------------------------------------
(* Exceptions.  An exception is a record of its class and its message;     *)
(* attempt is the 1-based attempt of the retry loop that raised it (0 when *)
(* it was raised outside the loop), which tells two errors of one class    *)
(* apart.                                                                  *)

Exc(type, msg, n) == [type |-> type, msg |-> msg, attempt |-> n]

None == [type |-> "None", msg |-> "", attempt |-> 0]

-----------------------------------------------------------------------------
(* The video reference resolver.                                           *)

\* The length of a video identifier: len(video_id) == 11 and {11}.
IdLen == 11

\* re.match(r'^[a-zA-Z0-9_-]+$', video_id): some non-empty prefix of
\* identifier characters ends where $ matches.
MatchesIdPlus(video_id) ==
    \E k \in 1..Len(video_id) :
        AllIn(video_id, 1, k, IdChar) /\ AtDollar(video_id, k + 1)

\* The test of a captured candidate:
\* len(video_id) == 11 and re.match(r'^[a-zA-Z0-9_-]+$', video_id)
IsValidCandidate(video_id) ==
    Len(video_id) = IdLen /\ MatchesIdPlus(video_id)

\* The literal alternatives of the first pattern's prefix group, in order.
PrefixLiterals ==
    <<"v=", "v/", "vi=", "vi/", "youtu.be/", "embed/", "/v/", "/e/", "watch?v=">>

\* youtube\.com\/user\/[^#]*#[^\/]*\/ at position i: the position after it,
\* or 0.  Each negated class runs to the first # (then the first /): a
\* shorter run is not followed by that character.
UserAltEnd(s, i) ==
    IF ~HasAt(s, i, "youtube.com/user/") THEN 0
    ELSE LET p == i + Len("youtube.com/user/")
             h == p + RunNotIn(s, p, {"#"})
         IN  IF h > Len(s) THEN 0
             ELSE LET q == h + 1 + RunNotIn(s, h + 1, {"/"})
                  IN  IF q > Len(s) THEN 0 ELSE q + 1

\* One iteration of the prefix group at position i: the position after the
\* first alternative that matches, or 0 when none does.
PrefixAltEnd(s, i) ==
    LET hits == {n \in 1..Len(PrefixLiterals) : HasAt(s, i, PrefixLiterals[n])}
    IN  IF hits # {} THEN i + Len(PrefixLiterals[Min(hits)])
        ELSE UserAltEnd(s, i)

\* (?:...)* : the group repeated greedily.  What follows it in the pattern
\* cannot fail, so the engine never gives an iteration back.
RECURSIVE SkipPrefixes(_, _)
SkipPrefixes(s, i) ==
    LET e == PrefixAltEnd(s, i)
    IN  IF e = 0 THEN i ELSE SkipPrefixes(s, e)

\* group(1) of re.search(patterns[0], url).  The pattern matches the empty
\* string, so the search always matches, at position 0: the prefixes, then
\* ([^#\&\?]*) greedily.
Pattern1Group(url) ==
    LET i == SkipPrefixes(url, 1)
    IN  SubSeq(url, i, i + RunNotIn(url, i, {"#", "&", "?"}) - 1)

\* [^"&?\/\s]
CaptureStop == {"\"", "&", "?", "/"} \cup Space

\* ([^"&?\/\s]{11}) matches at position j.
Capture11(s, j) ==
    /\ j + IdLen - 1 <= Len(s)
    /\ \A k \in j..(j + IdLen - 1) : Ch(s, k) \notin CaptureStop

\* [^\/]+\/.+\/ at position p, then the capture: the capture's position or
\* 0.  [^\/]+ runs to the first slash; .+ is greedy over one line and is
\* given back until a slash and a capture follow it.
Pattern2PathAlt(s, p) ==
    LET r == RunNotIn(s, p, {"/"})
        q == p + r
    IN  IF r = 0 \/ q > Len(s) THEN 0
        ELSE LET d == RunNotIn(s, q + 1, {"\n"})
                 J == {j \in (q + 2)..(q + d) :
                          Ch(s, j) = "/" /\ Capture11(s, j + 1)}
             IN  IF J = {} THEN 0 ELSE Max(J) + 1

\* (?:v|e(?:mbed)?)\/ at position p, then the capture.
Pattern2ShortAlt(s, p) ==
    IF HasAt(s, p, "v/") /\ Capture11(s, p + 2) THEN p + 2
    ELSE IF HasAt(s, p, "embed/") /\ Capture11(s, p + 6) THEN p + 6
    ELSE IF HasAt(s, p, "e/") /\ Capture11(s, p + 2) THEN p + 2
    ELSE 0

\* .*[?&]v= at position p, then the capture: .* is greedy over one line.
Pattern2QueryAlt(s, p) ==
    LET d == RunNotIn(s, p, {"\n"})
        J == {j \in p..(p + d - 1) :
                 /\ Ch(s, j) \in {"?", "&"}
                 /\ HasAt(s, j + 1, "v=")
                 /\ Capture11(s, j + 3)}
    IN  IF J = {} THEN 0 ELSE Max(J) + 3

\* The second pattern tried at position i: the capture's position, or 0.
Pattern2At(s, i) ==
    IF HasAt(s, i, "youtube.com/")
    THEN LET p == i + Len("youtube.com/")
             a == Pattern2PathAlt(s, p)
             b == Pattern2ShortAlt(s, p)
         IN  IF a # 0 THEN a
             ELSE IF b # 0 THEN b
             ELSE Pattern2QueryAlt(s, p)
    ELSE IF HasAt(s, i, "youtu.be/") /\ Capture11(s, i + Len("youtu.be/"))
    THEN i + Len("youtu.be/")
    ELSE 0

\* re.search(patterns[1], url): the leftmost position that matches.
Pattern2Match(url) ==
    LET I == {i \in 1..Len(url) : Pattern2At(url, i) # 0}
    IN  IF I = {} THEN [matched |-> FALSE, group |-> ""]
        ELSE LET c == Pattern2At(url, Min(I))
             IN  [matched |-> TRUE, group |-> SubSeq(url, c, c + IdLen - 1)]

\* extract_video_id(url): the first pattern whose capture passes the test;
\* YouTubeURLError when none does.
extract_video_id(url) ==
    LET g1 == Pattern1Group(url)
        m2 == Pattern2Match(url)
    IN  IF IsValidCandidate(g1) THEN [raised |-> FALSE, value |-> g1, exc |-> None]
        ELSE IF m2.matched /\ IsValidCandidate(m2.group)
        THEN [raised |-> FALSE, value |-> m2.group, exc |-> None]
        ELSE [raised |-> TRUE, value |-> "",
              exc |-> Exc("YouTubeURLError",
                          "Could not extract valid video ID from URL: " \o url, 0)]

\* validate_video_id(video_id): bool(re.match(r'^[a-zA-Z0-9_-]{11}$', video_id))
validate_video_id(video_id) ==
    /\ Len(video_id) >= IdLen
    /\ AllIn(video_id, 1, IdLen, IdChar)
    /\ AtDollar(video_id, IdLen + 1)

-----------------------------------------------------------------------------
(* The state.                                                              *)

VARIABLES
    lib,             \* which error classes the provider library exports
    pc,              \* the position of the running call
    op,              \* the operation that was called
    request,         \* the arguments the operation was called with
    video_id,        \* fetch_transcript_with_retry: its arguments ...
    language_codes,
    max_retries,
    attempt,         \* ... and its locals
    last_error,
    transcript,
    used_language,
    delay,           \* the argument of the time.sleep about to be taken
    fetched,         \* how fetch_transcript_with_retry ended
    result,          \* how the public operation ended
    listCalls,       \* provider calls made by the running call: listings,
    fetchCalls,      \*   content fetches,
    passedIds,       \*   and the video identifiers they were given
    sleeps,          \* the delays taken by the running call, in order
    listing,         \* the tracks the latest listing gave, while the track
                     \*   selected among them awaits its content fetch, and
                     \*   the tracks list_available_transcripts was given
    lastOutcome,     \* how the latest provider call ended
    pending,         \* the requests sent to the server and not yet started
    answered,        \* the requests the server has answered, in order
    cancelled        \* the caller has abandoned the request being handled

vars == <<lib, pc, op, request, video_id, language_codes, max_retries, attempt,
          last_error, transcript, used_language, delay, fetched, result,
          listCalls, fetchCalls, passedIds, sleeps, listing, lastOutcome,
          pending, answered, cancelled>>

\* The arguments and locals of fetch_transcript_with_retry.
frame == <<video_id, language_codes, max_retries, attempt, last_error,
           transcript, used_language, delay>>

\* What is recorded about the provider and the clock.
observed == <<listCalls, fetchCalls, passedIds, sleeps, listing, lastOutcome>>

\* The requests and answered of the server's transport.
server == <<pending, answered, cancelled>>

\* No provider call has ended yet.
NoOutcome == [call |-> "none", type |-> "none", attempt |-> 0, data |-> <<>>]

-----------------------------------------------------------------------------
(* The captioning provider.                                                *)

\* The names RequestBlocked and YouTubeRequestFailed as the import binds
\* them: the library's class, or Exception when the library has none.
RequestBlocked == IF lib.RequestBlocked THEN "RequestBlocked" ELSE "Exception"

YouTubeRequestFailed ==
    IF lib.YouTubeRequestFailed THEN "YouTubeRequestFailed" ELSE "Exception"

\* isinstance(e, cls), as an except clause tests it.  Every error of the
\* model is an Exception; the provider's classes are unrelated siblings.
IsInstance(e, cls) == cls = "Exception" \/ e.type = cls

\* The errors a provider call can raise: the classes the library has,
\* xml.etree.ElementTree.ParseError, and any other error (OtherError).
ProviderErrors ==
    {"TranscriptsDisabled", "VideoUnavailable", "NoTranscriptFound",
     "ParseError", "OtherError"}
    \cup (IF lib.RequestBlocked THEN {"RequestBlocked"} ELSE {})
    \cup (IF lib.YouTubeRequestFailed THEN {"YouTubeRequestFailed"} ELSE {})

\* str(e) of an error the provider raised.
ProviderMessage(type) == "provider says " \o type

Track(code, name, generated, translatable) ==
    [language_code |-> code, language |-> name,
     is_generated |-> generated, is_translatable |-> translatable]

NoTrack == Track("None", "None", FALSE, FALSE)

\* The tracks a video of the model can have.
ProviderTracks ==
    {Track("en", "English", FALSE, TRUE),
     Track("en", "English (auto-generated)", TRUE, FALSE),
     Track("es", "Spanish", FALSE, FALSE)}

\* The longest track enumeration of the model.
MaxTracks == 2

RECURSIVE SeqsUpTo(_, _)
SeqsUpTo(S, n) ==
    IF n = 0 THEN {<<>>}
    ELSE LET shorter == SeqsUpTo(S, n - 1)
         IN  shorter \cup {Append(q, x) : q \in shorter, x \in S}

TrackLists == SeqsUpTo(ProviderTracks, MaxTracks)

-----------------------------------------------------------------------------
(* Track selection.                                                        *)

\* transcript_list.find_transcript([lang_code]): the position in the
\* enumeration of the first track with that language code, 0 for
\* NoTranscriptFound.
find_transcript(transcript_list, lang_code) ==
    LET hits == {i \in 1..Len(transcript_list) :
                    transcript_list[i].language_code = lang_code}
    IN  IF hits = {} THEN 0 ELSE Min(hits)

\* for lang_code in language_codes: try find_transcript ... break, from the
\* i-th code on.
RECURSIVE FindPreferred(_, _, _)
FindPreferred(transcript_list, language_codes_, i) ==
    IF i > Len(language_codes_)
    THEN [transcript |-> NoTrack, used_language |-> "None"]
    ELSE LET t == find_transcript(transcript_list, language_codes_[i])
         IN  IF t # 0
             THEN [transcript |-> transcript_list[t],
                   used_language |-> language_codes_[i]]
             ELSE FindPreferred(transcript_list, language_codes_, i + 1)

\* Mutant of FallbackTrack: the last track of the enumeration.
FallbackTrack_Last(available_transcripts) ==
    available_transcripts[Len(available_transcripts)]

\* if transcript is None: the first track of the enumeration.
FallbackTrack(available_transcripts) == available_transcripts[1]

\* Mutant of SelectTranscript: a track selected in an earlier attempt is
\* kept.
SelectTranscript_KeepsEarlier(transcript_list, language_codes_, video_id_, n) ==
    LET pref == FindPreferred(transcript_list, language_codes_, 1)
    IN  IF transcript # NoTrack
        THEN [raised |-> FALSE, exc |-> None, transcript |-> transcript,
              used_language |-> used_language]
        ELSE IF pref.transcript # NoTrack
        THEN [raised |-> FALSE, exc |-> None] @@ pref
        ELSE IF Len(transcript_list) > 0
        THEN [raised |-> FALSE, exc |-> None,
              transcript |-> FallbackTrack(transcript_list),
              used_language |-> FallbackTrack(transcript_list).language_code]
        ELSE [raised |-> TRUE,
              exc |-> Exc("NoTranscriptFound",
                          "No transcripts available for video " \o video_id_, n),
              transcript |-> NoTrack, used_language |-> "None"]

\* "Find the best available transcript": the preferred track, else the
\* fallback, else NoTranscriptFound.
SelectTranscript(transcript_list, language_codes_, video_id_, n) ==
    LET pref == FindPreferred(transcript_list, language_codes_, 1)
    IN  IF pref.transcript # NoTrack
        THEN [raised |-> FALSE, exc |-> None] @@ pref
        ELSE IF Len(transcript_list) > 0
        THEN [raised |-> FALSE, exc |-> None,
              transcript |-> FallbackTrack(transcript_list),
              used_language |-> FallbackTrack(transcript_list).language_code]
        ELSE [raised |-> TRUE,
              exc |-> Exc("NoTranscriptFound",
                          "No transcripts available for video " \o video_id_, n),
              transcript |-> NoTrack, used_language |-> "None"]

-----------------------------------------------------------------------------
(* Caption segments.  start and duration are in tenths of a second; shape  *)
(* is the form the provider library returns a segment in (a dict or a      *)
(* FetchedTranscriptSnippet object); absent are the keys a dict lacks and  *)
(* null the fields whose value is None.                                    *)

Segment(shape, text, start, duration) ==
    [shape |-> shape, text |-> text, start |-> start, duration |-> duration,
     absent |-> {}, null |-> {}]

\* The dict segment without the keys in absent.
Without(segment, absent) == [segment EXCEPT !.absent = absent]

\* The segment whose fields in null are None.
WithNone(segment, null) == [segment EXCEPT !.null = null]

\* The segment sequences a content fetch of the model can return.
TranscriptData ==
    {<<>>,
     <<Segment("dict", "hello", 654, 10), Segment("dict", "  ", 700, 25)>>,
     <<Segment("snippet", " never \"gonna\"\n", 36005, 31),
       WithNone(Segment("snippet", "", 36100, 0), {"text", "duration"})>>,
     <<Without(Segment("dict", "", 0, 5), {"text", "start"}),
       WithNone(Segment("dict", "", 20, 0), {"text"})>>}

-----------------------------------------------------------------------------
(* The renderers.  A renderer's value is [raised, value, exc].             *)

Value(str) == [raised |-> FALSE, value |-> str, exc |-> None]

Error(e) == [raised |-> TRUE, value |-> "", exc |-> e]

\* The length of the run of characters of class cls that starts at i, and
\* of the run that ends at j.
RECURSIVE RunIn(_, _, _)
RunIn(s, i, cls) ==
    IF i > Len(s) \/ Ch(s, i) \notin cls THEN 0 ELSE 1 + RunIn(s, i + 1, cls)

RECURSIVE RunInBack(_, _, _)
RunInBack(s, j, cls) ==
    IF j < 1 \/ Ch(s, j) \notin cls THEN 0 ELSE 1 + RunInBack(s, j - 1, cls)

\* str.strip()
strip(s) ==
    LET a == RunIn(s, 1, Space)
    IN  IF a = Len(s) THEN ""
        ELSE SubSeq(s, a + 1, Len(s) - RunInBack(s, Len(s), Space))

UpperLetters == "ABCDEFGHIJKLMNOPQRSTUVWXYZ"

LowerLetters == "abcdefghijklmnopqrstuvwxyz"

\* str.lower(), from position i on
RECURSIVE lower(_, _)
lower(s, i) ==
    IF i > Len(s) THEN ""
    ELSE LET c == Ch(s, i)
             k == CHOOSE k \in 1..Len(UpperLetters) : Ch(UpperLetters, k) = c
         IN  (IF c \in Upper THEN Ch(LowerLetters, k) ELSE c) \o lower(s, i + 1)

\* f"{n:02d}" for n >= 0
Pad2(n) == IF n < 10 THEN "0" \o ToString(n) ELSE ToString(n)

\* repr() and json.dumps() of the float that is t tenths
Float(t) == ToString(t \div 10) \o "." \o ToString(t % 10)

\* Mutant of TextLine: the text is not stripped.
TextLine_NoStrip(segment) ==
    LET isSnippet == segment.shape = "snippet"
        noText == "text" \in segment.null \/ "text" \in segment.absent
        secs == (IF "start" \in segment.absent THEN 0 ELSE segment.start) \div 10
        text == IF noText THEN "" ELSE segment.text
    IN  IF ~isSnippet /\ "text" \in segment.null
        THEN Error(Exc("AttributeError",
                       "'NoneType' object has no attribute 'strip'", 0))
        ELSE IF "start" \in segment.null
        THEN Error(Exc("TypeError",
                       "unsupported operand type(s) for //: 'NoneType' and 'int'", 0))
        ELSE IF text = "" THEN Value("")
        ELSE Value("[" \o Pad2(secs \div 60) \o ":" \o Pad2(secs % 60) \o "] " \o text)

\* One segment of format_transcript_text: the line it appends ("" for none).
TextLine(segment) ==
    LET isSnippet == segment.shape = "snippet"
        noText == "text" \in segment.null \/ "text" \in segment.absent
        secs == (IF "start" \in segment.absent THEN 0 ELSE segment.start) \div 10
        text == IF noText THEN "" ELSE strip(segment.text)
    IN  IF ~isSnippet /\ "text" \in segment.null
        THEN Error(Exc("AttributeError",
                       "'NoneType' object has no attribute 'strip'", 0))
        ELSE IF "start" \in segment.null
        THEN Error(Exc("TypeError",
                       "unsupported operand type(s) for //: 'NoneType' and 'int'", 0))
        ELSE IF text = "" THEN Value("")
        ELSE Value("[" \o Pad2(secs \div 60) \o ":" \o Pad2(secs % 60) \o "] " \o text)

\* format_transcript_text, from segment i on: the lines joined by "\n".
RECURSIVE FormatTextFrom(_, _, _)
FormatTextFrom(transcript_data, i, sofar) ==
    IF i > Len(transcript_data) THEN Value(sofar)
    ELSE LET line == TextLine(transcript_data[i])
         IN  IF line.raised THEN line
             ELSE FormatTextFrom(transcript_data, i + 1,
                                 IF line.value = "" THEN sofar
                                 ELSE IF sofar = "" THEN line.value
                                 ELSE sofar \o "\n" \o line.value)

format_transcript_text(transcript_data) == FormatTextFrom(transcript_data, 1, "")

\* The escapes of a character in a JSON string and in a Python repr.
JsonChar(c) ==
    CASE c = "\"" -> "\\\""
      [] c = "\\" -> "\\\\"
      [] c = "\n" -> "\\n"
      [] c = "\t" -> "\\t"
      [] c = "\r" -> "\\r"
      [] c = "\f" -> "\\f"
      [] OTHER -> c

ReprChar(c, quote) ==
    CASE c = quote -> "\\" \o c
      [] c = "\\" -> "\\\\"
      [] c = "\n" -> "\\n"
      [] c = "\t" -> "\\t"
      [] c = "\r" -> "\\r"
      [] c = "\f" -> "\\x0c"
      [] OTHER -> c

RECURSIVE JsonEscape(_, _)
JsonEscape(s, i) ==
    IF i > Len(s) THEN "" ELSE JsonChar(Ch(s, i)) \o JsonEscape(s, i + 1)

RECURSIVE ReprEscape(_, _, _)
ReprEscape(s, i, quote) ==
    IF i > Len(s) THEN "" ELSE ReprChar(Ch(s, i), quote) \o ReprEscape(s, i + 1, quote)

Contains(s, c) == \E i \in 1..Len(s) : Ch(s, i) = c

\* json.dumps(s, ensure_ascii=False) and repr(s) of a string
JsonString(s) == "\"" \o JsonEscape(s, 1) \o "\""

ReprString(s) ==
    LET quote == IF Contains(s, "'") /\ ~Contains(s, "\"") THEN "\"" ELSE "'"
    IN  quote \o ReprEscape(s, 1, quote) \o quote

\* The keys of a segment in the order json.dumps and repr show them.
SegmentKeys(segment) ==
    SelectSeq(<<"text", "start", "duration">>, LAMBDA k : k \notin segment.absent)

\* The value of key k of a segment, as JSON (json = TRUE) or as a repr.
FieldText(segment, k, json) ==
    IF k \in segment.null THEN (IF json THEN "null" ELSE "None")
    ELSE IF k = "text"
    THEN (IF json THEN JsonString(segment.text) ELSE ReprString(segment.text))
    ELSE IF k = "start" THEN Float(segment.start)
    ELSE Float(segment.duration)

\* The members of one JSON object, from key i on, one per line.
RECURSIVE JsonMembers(_, _, _)
JsonMembers(segment, keys, i) ==
    IF i > Len(keys) THEN ""
    ELSE "    \"" \o keys[i] \o "\": " \o FieldText(segment, keys[i], TRUE)
         \o (IF i < Len(keys) THEN ",\n" ELSE "\n")
         \o JsonMembers(segment, keys, i + 1)

JsonObject(segment) ==
    IF SegmentKeys(segment) = <<>> THEN "  {}"
    ELSE "  {\n" \o JsonMembers(segment, SegmentKeys(segment), 1) \o "  }"

RECURSIVE JsonObjects(_, _)
JsonObjects(transcript_data, i) ==
    IF i > Len(transcript_data) THEN ""
    ELSE JsonObject(transcript_data[i])
         \o (IF i < Len(transcript_data) THEN ",\n" ELSE "\n")
         \o JsonObjects(transcript_data, i + 1)

\* format_transcript_json: json.dumps(json_data, indent=2, ensure_ascii=False)
format_transcript_json(transcript_data) ==
    IF transcript_data = <<>> THEN Value("[]")
    ELSE Value("[\n" \o JsonObjects(transcript_data, 1) \o "]")

\* repr of one segment: of a dict, or of a FetchedTranscriptSnippet.
RECURSIVE ReprMembers(_, _, _)
ReprMembers(segment, keys, i) ==
    IF i > Len(keys) THEN ""
    ELSE (IF segment.shape = "dict" THEN "'" \o keys[i] \o "': " ELSE keys[i] \o "=")
         \o FieldText(segment, keys[i], FALSE)
         \o (IF i < Len(keys) THEN ", " ELSE "")
         \o ReprMembers(segment, keys, i + 1)

ReprSegment(segment) ==
    IF segment.shape = "dict"
    THEN "{" \o ReprMembers(segment, SegmentKeys(segment), 1) \o "}"
    ELSE "FetchedTranscriptSnippet("
         \o ReprMembers(segment, SegmentKeys(segment), 1) \o ")"

RECURSIVE ReprSegments(_, _)
ReprSegments(transcript_data, i) ==
    IF i > Len(transcript_data) THEN ""
    ELSE ReprSegment(transcript_data[i])
         \o (IF i < Len(transcript_data) THEN ", " ELSE "")
         \o ReprSegments(transcript_data, i + 1)

\* str(transcript_data), of the list of segments
str(transcript_data) == Value("[" \o ReprSegments(transcript_data, 1) \o "]")

-----------------------------------------------------------------------------
(* fetch_transcript_with_retry.                                            *)

\* max_retries: int = 3
DefaultMaxRetries == 3

\* Mutant of Returned: the language first asked for is reported, not the
\* language of the track that was used.
Returned_FirstPreference(data, language) ==
    [kind |-> "return", data |-> data,
     used_language |-> IF language_codes # <<>> THEN language_codes[1] ELSE language,
     exc |-> None]

\* How a function ended: by returning or by raising.
Returned(data, language) ==
    [kind |-> "return", data |-> data, used_language |-> language, exc |-> None]

Raised(e) == [kind |-> "raise", data |-> <<>>, used_language |-> "None", exc |-> e]

Running == [kind |-> "none", data |-> <<>>, used_language |-> "None", exc |-> None]

\* How a public operation ended: by returning value, after its boundary
\* caught the error caught (None when it caught none), or with the error
\* exc leaving it.
Return(value, caught) ==
    [kind |-> "return", value |-> value, caught |-> caught, exc |-> None]

Escapes(e) == [kind |-> "raise", value |-> "", caught |-> None, exc |-> e]

NoResult == [kind |-> "none", value |-> "", caught |-> None, exc |-> None]

\* time.sleep(2 ** attempt)
ParseBackoff(attempt_) == 2 ^ attempt_

\* time.sleep(5 * (attempt + 1))
BlockedBackoff(attempt_) == 5 * (attempt_ + 1)

\* time.sleep(1 * (attempt + 1))
FailedBackoff(attempt_) == 1 * (attempt_ + 1)

\* Mutant of InRange: the loop runs once more than max_retries.
InRange_Inclusive(attempt_, max_retries_) == 0 <= attempt_ /\ attempt_ <= max_retries_

\* for attempt in range(max_retries): attempt is in the range.
InRange(attempt_, max_retries_) == 0 <= attempt_ /\ attempt_ < max_retries_

\* attempt < max_retries - 1
HasAttemptsLeft(attempt_, max_retries_) == attempt_ < max_retries_ - 1

\* What the loop does next: raise exc, sleep for delay and continue, or
\* fall out of the handler to the next iteration; with the new last_error.
DoRaise(e, last) == [do |-> "raise", exc |-> e, delay |-> 0, last_error |-> last]

DoSleep(d, last) == [do |-> "sleep", exc |-> None, delay |-> d, last_error |-> last]

DoNext(last) == [do |-> "next", exc |-> None, delay |-> 0, last_error |-> last]

\* The classes of the first except clause of the loop.
TerminalErrors == {"TranscriptsDisabled", "VideoUnavailable", "NoTranscriptFound"}

\* Mutant of Except: the first clause is missing, and a terminal error is
\* retried like a failed request.
Except_RetriesTerminal(e, attempt_, max_retries_, last) ==
    IF IsInstance(e, RequestBlocked)
    THEN IF HasAttemptsLeft(attempt_, max_retries_)
         THEN DoSleep(BlockedBackoff(attempt_), last)
         ELSE DoRaise(e, last)
    ELSE IF IsInstance(e, YouTubeRequestFailed) \/ e.type \in TerminalErrors
    THEN IF HasAttemptsLeft(attempt_, max_retries_)
         THEN DoSleep(FailedBackoff(attempt_), e)
         ELSE DoNext(e)
    ELSE DoRaise(e, last)

\* Mutant of Except: when the attempts are used up, the request-blocked
\* clause raises the remembered error if there is one.
Except_RaisesRemembered(e, attempt_, max_retries_, last) ==
    IF e.type \in TerminalErrors THEN DoRaise(e, last)
    ELSE IF IsInstance(e, RequestBlocked)
    THEN IF HasAttemptsLeft(attempt_, max_retries_)
         THEN DoSleep(BlockedBackoff(attempt_), last)
         ELSE DoRaise(IF last # None THEN last ELSE e, last)
    ELSE IF IsInstance(e, YouTubeRequestFailed)
    THEN IF HasAttemptsLeft(attempt_, max_retries_)
         THEN DoSleep(FailedBackoff(attempt_), e)
         ELSE DoNext(e)
    ELSE DoRaise(e, last)

\* The except clauses of the loop's try statement, in order, for an error e
\* raised in its body.
Except(e, attempt_, max_retries_, last) ==
    IF e.type \in TerminalErrors THEN DoRaise(e, last)
    ELSE IF IsInstance(e, RequestBlocked)
    THEN IF HasAttemptsLeft(attempt_, max_retries_)
         THEN DoSleep(BlockedBackoff(attempt_), last)
         ELSE DoRaise(e, last)
    ELSE IF IsInstance(e, YouTubeRequestFailed)
    THEN IF HasAttemptsLeft(attempt_, max_retries_)
         THEN DoSleep(FailedBackoff(attempt_), e)
         ELSE DoNext(e)
    ELSE DoRaise(e, last)

\* The error raised when the last attempt's content does not parse.
ParseFailure(attempt_, max_retries_) ==
    Exc("Exception",
        "Failed to parse transcript XML after " \o ToString(max_retries_)
        \o " attempts. This might be due to YouTube API changes or rate limiting.",
        attempt_ + 1)

\* The try statement around transcript.fetch: its except clause for
\* ParseError, whose raise is itself inside the loop's try statement; any
\* other error goes to the loop's except clauses.
FetchExcept(e, attempt_, max_retries_, last) ==
    IF e.type = "ParseError"
    THEN IF HasAttemptsLeft(attempt_, max_retries_)
         THEN DoSleep(ParseBackoff(attempt_), last)
         ELSE Except(ParseFailure(attempt_, max_retries_), attempt_, max_retries_, last)
    ELSE Except(e, attempt_, max_retries_, last)

\* Mutant of Exhausted: the remembered error is dropped.
Exhausted_AlwaysGeneric(last) == Exc("Exception", "All retry attempts failed", 0)

\* raise last_error or Exception("All retry attempts failed")
Exhausted(last) ==
    IF last # None THEN last ELSE Exc("Exception", "All retry attempts failed", 0)

\* The state change a handler's decision d makes.
Handle(d) ==
    /\ last_error' = d.last_error
    /\ delay' = d.delay
    /\ fetched' = IF d.do = "raise" THEN Raised(d.exc) ELSE fetched
    /\ pc' = CASE d.do = "raise" -> "returned"
               [] d.do = "sleep" -> "sleep"
               [] OTHER -> "for"

\* Mutant of EnterFetch: last_error keeps the value an earlier call left.
EnterFetch_KeepsLastError(id, codes, retries) ==
    /\ video_id' = id
    /\ language_codes' = codes
    /\ max_retries' = retries
    /\ attempt' = -1
    /\ last_error' = last_error
    /\ transcript' = NoTrack
    /\ used_language' = "None"
    /\ delay' = 0
    /\ fetched' = Running
    /\ pc' = "for"

\* The entry of fetch_transcript_with_retry: last_error = None.
EnterFetch(id, codes, retries) ==
    /\ video_id' = id
    /\ language_codes' = codes
    /\ max_retries' = retries
    /\ attempt' = -1
    /\ last_error' = None
    /\ transcript' = NoTrack
    /\ used_language' = "None"
    /\ delay' = 0
    /\ fetched' = Running
    /\ pc' = "for"

\* for attempt in range(max_retries): the next attempt, or the end of the
\* loop and the raise after it.
ForAttempt ==
    /\ pc = "for"
    /\ IF InRange(attempt + 1, max_retries)
       THEN /\ attempt' = attempt + 1
            /\ pc' = "list_transcripts"
            /\ UNCHANGED fetched
       ELSE /\ fetched' = Raised(Exhausted(last_error))
            /\ pc' = "returned"
            /\ UNCHANGED attempt
    /\ UNCHANGED <<lib, server, op, request, video_id, language_codes, max_retries,
                   last_error, transcript, used_language, delay, result, observed>>

\* YouTubeTranscriptApi.list_transcripts(video_id) raises an error.
ListTranscriptsFails ==
    /\ pc = "list_transcripts"
    /\ \E type \in ProviderErrors :
          LET e == Exc(type, ProviderMessage(type), attempt + 1)
          IN  /\ Handle(Except(e, attempt, max_retries, last_error))
              /\ lastOutcome' = [call |-> "list", type |-> type, attempt |-> attempt + 1,
                                 data |-> <<>>]
    /\ listCalls' = listCalls + 1
    /\ passedIds' = passedIds \cup {video_id}
    /\ listing' = <<>>
    /\ UNCHANGED <<lib, server, op, request, video_id, language_codes, max_retries, attempt,
                   transcript, used_language, result, fetchCalls, sleeps>>

\* YouTubeTranscriptApi.list_transcripts(video_id) returns the tracks, and
\* a track is selected among them.
ListTranscripts ==
    /\ pc = "list_transcripts"
    /\ \E transcript_list \in TrackLists :
          LET sel == SelectTranscript(transcript_list, language_codes, video_id,
                                      attempt + 1)
          IN  /\ listing' = IF sel.raised THEN <<>> ELSE transcript_list
              /\ transcript' = sel.transcript
              /\ used_language' = sel.used_language
              /\ IF sel.raised
                 THEN /\ Handle(Except(sel.exc, attempt, max_retries, last_error))
                      /\ lastOutcome' = [call |-> "list", type |-> sel.exc.type,
                                         attempt |-> attempt + 1, data |-> <<>>]
                 ELSE /\ pc' = "fetch"
                      /\ lastOutcome' = [call |-> "list", type |-> "ok",
                                         attempt |-> attempt + 1, data |-> <<>>]
                      /\ UNCHANGED <<last_error, delay, fetched>>
    /\ listCalls' = listCalls + 1
    /\ passedIds' = passedIds \cup {video_id}
    /\ UNCHANGED <<lib, server, op, request, video_id, language_codes, max_retries, attempt,
                   result, fetchCalls, sleeps>>

\* transcript.fetch(preserve_formatting=False) raises an error.
FetchFails ==
    /\ pc = "fetch"
    /\ \E type \in ProviderErrors :
          LET e == Exc(type, ProviderMessage(type), attempt + 1)
          IN  /\ Handle(FetchExcept(e, attempt, max_retries, last_error))
              /\ lastOutcome' = [call |-> "fetch", type |-> type, attempt |-> attempt + 1,
                                 data |-> <<>>]
    /\ fetchCalls' = fetchCalls + 1
    /\ listing' = <<>>
    /\ UNCHANGED <<lib, server, op, request, video_id, language_codes, max_retries, attempt,
                   transcript, used_language, result, listCalls, passedIds, sleeps>>

\* transcript.fetch(preserve_formatting=False) returns the segments:
\* return transcript_data, used_language
FetchReturns ==
    /\ pc = "fetch"
    /\ \E transcript_data \in TranscriptData :
          /\ fetched' = Returned(transcript_data, used_language)
          /\ lastOutcome' = [call |-> "fetch", type |-> "ok", attempt |-> attempt + 1,
                             data |-> transcript_data]
    /\ pc' = "returned"
    /\ fetchCalls' = fetchCalls + 1
    /\ listing' = <<>>
    /\ UNCHANGED <<lib, server, op, request, frame, result, listCalls, passedIds, sleeps>>

\* time.sleep(delay); continue
Sleep ==
    /\ pc = "sleep"
    /\ sleeps' = Append(sleeps, delay)
    /\ pc' = "for"
    /\ UNCHANGED <<lib, server, op, request, frame, fetched, result, listCalls, fetchCalls,
                   passedIds, listing, lastOutcome>>

-----------------------------------------------------------------------------
(* The retry loop called on its own.                                       *)

\* The builds: each of the two optional imports succeeds or falls back.
Libs == [RequestBlocked : BOOLEAN, YouTubeRequestFailed : BOOLEAN]

NoRequest == [input |-> "", language |-> "", format_type |-> ""]

\* The arguments of the model's direct calls.
VideoIds == {"dQw4w9WgXcQ"}

LanguagePreferences ==
    {<<"en">>, <<"es", "en">>, <<"fr", "en">>, <<"de", "es">>, <<"fr">>, <<>>}

\* The largest max_retries of a direct call.
MaxRetries == 3

Init ==
    /\ lib \in Libs
    /\ pc = "idle"
    /\ op = "none"
    /\ request = NoRequest
    /\ video_id = ""
    /\ language_codes = <<>>
    /\ max_retries = 0
    /\ attempt = -1
    /\ last_error = None
    /\ transcript = NoTrack
    /\ used_language = "None"
    /\ delay = 0
    /\ fetched = Running
    /\ result = NoResult
    /\ listCalls = 0
    /\ fetchCalls = 0
    /\ passedIds = {}
    /\ sleeps = <<>>
    /\ listing = <<>>
    /\ lastOutcome = NoOutcome
    /\ pending = <<>>
    /\ answered = <<>>
    /\ cancelled = FALSE

\* A caller calls fetch_transcript_with_retry(video_id, language_codes,
\* max_retries).
CallFetchTranscriptWithRetry ==
    /\ pc = "idle"
    /\ \E id \in VideoIds, codes \in LanguagePreferences, retries \in 0..MaxRetries :
          EnterFetch(id, codes, retries)
    /\ op' = "fetch_transcript_with_retry"
    /\ UNCHANGED <<lib, server, request, result, observed>>

Next ==
    \/ CallFetchTranscriptWithRetry
    \/ ForAttempt
    \/ ListTranscriptsFails
    \/ ListTranscripts
    \/ FetchFails
    \/ FetchReturns
    \/ Sleep

Spec == Init /\ [][Next]_vars

-----------------------------------------------------------------------------
(* The public operations.                                                  *)

\* Mutant of Boundary: the except clauses without the final
\* "except Exception".
Boundary_NoCatchAll(operation, e) ==
    IF operation = "get_transcript_from_url" /\ IsInstance(e, "YouTubeURLError")
    THEN Return("URL Error: " \o e.msg, e)
    ELSE IF IsInstance(e, "TranscriptsDisabled")
    THEN Return("Error: Transcripts are disabled for this video", e)
    ELSE IF IsInstance(e, "VideoUnavailable")
    THEN Return("Error: Video is unavailable or does not exist", e)
    ELSE IF IsInstance(e, RequestBlocked)
    THEN Return("Error: Request blocked. Please try again later", e)
    ELSE IF IsInstance(e, YouTubeRequestFailed)
    THEN Return("Error: YouTube request failed. Please try again later", e)
    ELSE Escapes(e)

\* The except clauses of a public operation's try statement, in order, for
\* an error e raised in its body.  Only get_transcript_from_url has the
\* clause for YouTubeURLError.
Boundary(operation, e) ==
    IF operation = "get_transcript_from_url" /\ IsInstance(e, "YouTubeURLError")
    THEN Return("URL Error: " \o e.msg, e)
    ELSE IF IsInstance(e, "TranscriptsDisabled")
    THEN Return("Error: Transcripts are disabled for this video", e)
    ELSE IF IsInstance(e, "VideoUnavailable")
    THEN Return("Error: Video is unavailable or does not exist", e)
    ELSE IF IsInstance(e, RequestBlocked)
    THEN Return("Error: Request blocked. Please try again later", e)
    ELSE IF IsInstance(e, YouTubeRequestFailed)
    THEN Return("Error: YouTube request failed. Please try again later", e)
    ELSE Return("Unexpected error: " \o e.msg, e)

\* Mutant of language_preference: "en" is appended to every language.
language_preference_AlwaysAppends(language) ==
    <<language, "en">>

\* language_preference = [language, "en"] if language != "en" else ["en"]
language_preference(language) ==
    IF language # "en" THEN <<language, "en">> ELSE <<"en">>

\* The function whose body an operation runs: the resource accessor awaits
\* get_transcript_from_id(video_id).
Body(operation) ==
    IF operation = "get_transcript_resource" THEN "get_transcript_from_id"
    ELSE operation

\* The first words of a text result.
Heading(operation, input) ==
    IF operation = "get_transcript_from_url" THEN "Transcript for " \o input
    ELSE "Transcript for video " \o input

\* "Format based on requested type".
Format(operation, r, transcript_data, language) ==
    LET kind == lower(r.format_type, 1)
        text == format_transcript_text(transcript_data)
    IN  IF kind = "json" THEN format_transcript_json(transcript_data)
        ELSE IF kind = "raw" THEN str(transcript_data)
        ELSE IF text.raised THEN text
        ELSE Value(Heading(operation, r.input) \o " (Language: " \o language
                   \o "):\n\n" \o text.value)

YesNo(b) == IF b THEN "Yes" ELSE "No"

\* "Format output" of list_available_transcripts, from track i on.
RECURSIVE FormatTracks(_, _)
FormatTracks(available_transcripts, i) ==
    IF i > Len(available_transcripts) THEN ""
    ELSE LET t == available_transcripts[i]
         IN  ToString(i) \o ". " \o t.language \o " (" \o t.language_code \o ")\n"
             \o "   Generated: " \o YesNo(t.is_generated) \o "\n"
             \o "   Translatable: " \o YesNo(t.is_translatable) \o "\n\n"
             \o FormatTracks(available_transcripts, i + 1)

\* Mutant of FormatList: no track at all is reported as an error.
FormatList_EmptyIsError(video_id_, available_transcripts) ==
    IF available_transcripts = <<>>
    THEN "Error: No transcripts available for video " \o video_id_
    ELSE "Available transcripts for video " \o video_id_ \o ":\n\n"
         \o FormatTracks(available_transcripts, 1)

\* if not available_transcripts: ...; "Format output"
FormatList(video_id_, available_transcripts) ==
    IF available_transcripts = <<>>
    THEN "No transcripts available for video " \o video_id_
    ELSE "Available transcripts for video " \o video_id_ \o ":\n\n"
         \o FormatTracks(available_transcripts, 1)

\* The arguments of the model's requests.
Watch == "https://www.youtube.com/watch?v=dQw4w9WgXcQ"

Urls ==
    {Watch, "https://youtu.be/dQw4w9WgXcQ", "https://www.youtube.com/embed/dQw4w9WgXcQ",
     "abcdefghij\n", "not a url", ""}

Ids == {"dQw4w9WgXcQ", "dQw4w9WgXcQ\n", "invalid_id", "dQw4w9WgXc!", ""}

Languages == {"en", "es", "fr", "EN"}

FormatTypes == {"text", "json", "raw", "JSON", "xml"}

Request(input, language, format_type) ==
    [input |-> input, language |-> language, format_type |-> format_type]

\* Every input with the default language and format, and one input with
\* every language and with every format.
Requests(inputs, input) ==
    {Request(i, "en", "text") : i \in inputs}
    \cup {Request(input, l, "text") : l \in Languages}
    \cup {Request(input, "en", f) : f \in FormatTypes}

\* The start of a request: nothing is recorded yet.
Begin(operation, r) ==
    /\ op' = operation
    /\ request' = r
    /\ listCalls' = 0
    /\ fetchCalls' = 0
    /\ passedIds' = {}
    /\ sleeps' = <<>>
    /\ listing' = <<>>
    /\ lastOutcome' = NoOutcome

\* Mutant of ReturnEarly: the operation goes on to the retry loop with the
\* input it rejected.
ReturnEarly_GoesOn(res) ==
    /\ EnterFetch(request'.input, <<"en">>, DefaultMaxRetries)
    /\ UNCHANGED result

\* The operation returns before it calls the retry loop.
ReturnEarly(res) ==
    /\ result' = res
    /\ pc' = "done"
    /\ UNCHANGED <<frame, fetched>>

\* get_transcript_from_url(url, language, format_type), up to its call of
\* fetch_transcript_with_retry, for the request r.
get_transcript_from_url(r) ==
    LET id == extract_video_id(r.input)
    IN  /\ Begin("get_transcript_from_url", r)
        /\ IF id.raised
           THEN ReturnEarly(Boundary("get_transcript_from_url", id.exc))
           ELSE /\ EnterFetch(id.value, language_preference(r.language),
                               DefaultMaxRetries)
                /\ UNCHANGED result

\* get_transcript_from_id(video_id, language, format_type), up to its call
\* of fetch_transcript_with_retry, for the request r to operation.
get_transcript_from_id(operation, r) ==
    /\ Begin(operation, r)
    /\ IF ~validate_video_id(r.input)
       THEN ReturnEarly(Return("Error: Invalid video ID format. "
                               \o "Must be 11 characters: " \o r.input, None))
       ELSE /\ EnterFetch(r.input, language_preference(r.language),
                           DefaultMaxRetries)
            /\ UNCHANGED result

\* Mutant of get_transcript_resource: another language than the default
\* of get_transcript_from_id.
get_transcript_resource_Spanish(video_id_) ==
    get_transcript_from_id("get_transcript_resource", Request(video_id_, "es", "text"))

\* get_transcript_resource(video_id): await get_transcript_from_id(video_id),
\* with the defaults of its other parameters.
get_transcript_resource(video_id_) ==
    get_transcript_from_id("get_transcript_resource", Request(video_id_, "en", "text"))

\* A client calls get_transcript_from_url.
GetTranscriptFromUrl ==
    /\ pc = "idle"
    /\ \E r \in Requests(Urls, Watch) : get_transcript_from_url(r)
    /\ UNCHANGED <<lib, server>>

\* A client calls get_transcript_from_id.
GetTranscriptFromId ==
    /\ pc = "idle"
    /\ \E r \in Requests(Ids, "dQw4w9WgXcQ") :
          get_transcript_from_id("get_transcript_from_id", r)
    /\ UNCHANGED <<lib, server>>

\* A client reads the resource youtube://transcript/{video_id}.
GetTranscriptResource ==
    /\ pc = "idle"
    /\ \E i \in Ids : get_transcript_resource(i)
    /\ UNCHANGED <<lib, server>>

\* The rest of get_transcript_from_url and get_transcript_from_id, after
\* fetch_transcript_with_retry ended: the result is formatted, and an error
\* of the call or of the formatting goes to the except clauses.
FormatResult ==
    /\ pc = "returned"
    /\ op \in {"get_transcript_from_url", "get_transcript_from_id",
               "get_transcript_resource"}
    /\ LET out == Format(Body(op), request, fetched.data, fetched.used_language)
       IN  result' = IF fetched.kind = "raise" THEN Boundary(Body(op), fetched.exc)
                     ELSE IF out.raised THEN Boundary(Body(op), out.exc)
                     ELSE Return(out.value, None)
    /\ pc' = "done"
    /\ UNCHANGED <<lib, server, op, request, frame, fetched, observed>>

\* list_available_transcripts(video_url_or_id): the identifier is resolved,
\* the provider is asked once for the tracks, and they are formatted.
list_available_transcripts(video_url_or_id) ==
    LET extracted == extract_video_id(video_url_or_id)
        id == IF extracted.raised THEN video_url_or_id ELSE extracted.value
        one == [call |-> "list", type |-> "ok", attempt |-> 1, data |-> <<>>]
    IN  /\ op' = "list_available_transcripts"
        /\ request' = Request(video_url_or_id, "", "")
        /\ IF extracted.raised /\ ~validate_video_id(id)
           THEN /\ result' = Return("Error: Invalid video ID or URL: "
                                    \o video_url_or_id, None)
                /\ listCalls' = 0
                /\ passedIds' = {}
                /\ lastOutcome' = NoOutcome
                /\ listing' = <<>>
                /\ UNCHANGED video_id
           ELSE /\ video_id' = id
                /\ listCalls' = 1
                /\ passedIds' = {id}
                /\ \/ \E type \in ProviderErrors :
                         /\ result' = Boundary("list_available_transcripts",
                                               Exc(type, ProviderMessage(type), 1))
                         /\ lastOutcome' = [one EXCEPT !.type = type]
                         /\ listing' = <<>>
                   \/ \E transcript_list \in TrackLists :
                         /\ result' = Return(FormatList(id, transcript_list), None)
                         /\ lastOutcome' = one
                         /\ listing' = transcript_list
        /\ pc' = "done"
        /\ fetchCalls' = 0
        /\ sleeps' = <<>>
        /\ UNCHANGED <<language_codes, max_retries, attempt, last_error, transcript,
                       used_language, delay, fetched>>

\* A client calls list_available_transcripts.
ListAvailableTranscripts ==
    /\ pc = "idle"
    /\ \E i \in Urls \cup Ids : list_available_transcripts(i)
    /\ UNCHANGED <<lib, server>>

\* The server: a request to one of the four operations.
NextOps ==
    \/ GetTranscriptFromUrl
    \/ GetTranscriptFromId
    \/ GetTranscriptResource
    \/ ListAvailableTranscripts
    \/ ForAttempt
    \/ ListTranscriptsFails
    \/ ListTranscripts
    \/ FetchFails
    \/ FetchReturns
    \/ Sleep
    \/ FormatResult

SpecOps == Init /\ [][NextOps]_vars

-----------------------------------------------------------------------------
(* The server with several requests.  mcp.run serves the handlers on one   *)
(* event loop.  A handler is a coroutine that never suspends: its provider *)
(* calls and its time.sleep are synchronous, and the one await, of         *)
(* get_transcript_from_id, runs that coroutine in place.  So the loop      *)
(* starts a handler only when no other handler is running.                 *)

\* The most requests sent to the server in a behaviour.
MaxRequests == 2

Call(operation, r) == [op |-> operation, request |-> r]

\* The requests clients send.
Calls ==
    {Call("get_transcript_from_id", Request("dQw4w9WgXcQ", "en", "text")),
     Call("list_available_transcripts", Request("dQw4w9WgXcQ", "", ""))}

\* The number of requests whose handler is running: 0 or 1.
Handling == IF pc = "idle" THEN 0 ELSE 1

\* A client sends a request.
Send ==
    /\ Len(pending) + Handling + Len(answered) < MaxRequests
    /\ \E c \in Calls : pending' = Append(pending, c)
    /\ UNCHANGED <<lib, pc, op, request, frame, fetched, result, observed, answered,
                   cancelled>>

\* The caller abandons the request being handled, while its retry loop is
\* in a backoff delay or between two attempts.  The cancellation reaches
\* the transport, which the event loop serves; the handler is a coroutine
\* that does not suspend and the loop has no check of its own, so nothing
\* the handler reads changes.
Cancel ==
    /\ pc \in {"sleep", "for"}
    /\ attempt >= 0
    /\ ~cancelled
    /\ cancelled' = TRUE
    /\ UNCHANGED <<lib, pc, op, request, frame, fetched, result, observed, pending,
                   answered>>

\* The event loop starts the handler of the oldest request not yet started.
Dispatch ==
    /\ pc = "idle"
    /\ pending # <<>>
    /\ LET c == Head(pending)
       IN  \/ /\ c.op = "get_transcript_from_url"
              /\ get_transcript_from_url(c.request)
           \/ /\ c.op = "get_transcript_from_id"
              /\ get_transcript_from_id(c.op, c.request)
           \/ /\ c.op = "get_transcript_resource"
              /\ get_transcript_resource(c.request.input)
           \/ /\ c.op = "list_available_transcripts"
              /\ list_available_transcripts(c.request.input)
    /\ pending' = Tail(pending)
    /\ UNCHANGED <<lib, answered, cancelled>>

\* The handler's return value is sent as the response.  What the handler
\* wrote stays as it is; what was recorded about its provider calls is not
\* kept.
Respond ==
    /\ pc = "done"
    /\ answered' = Append(answered, Call(op, request))
    /\ result' = NoResult
    /\ pc' = "idle"
    /\ listCalls' = 0
    /\ fetchCalls' = 0
    /\ passedIds' = {}
    /\ sleeps' = <<>>
    /\ listing' = <<>>
    /\ lastOutcome' = NoOutcome
    /\ cancelled' = FALSE
    /\ UNCHANGED <<lib, op, request, frame, fetched, pending>>

NextServer ==
    \/ Send
    \/ Cancel
    \/ Dispatch
    \/ ForAttempt
    \/ ListTranscriptsFails
    \/ ListTranscripts
    \/ FetchFails
    \/ FetchReturns
    \/ Sleep
    \/ FormatResult
    \/ Respond

SpecServer == Init /\ [][NextServer]_vars

-----------------------------------------------------------------------------
(* validate_video_id called on its own.                                    *)

\* The longest run of one character in an argument of the model.
MaxRun == 12

RECURSIVE Rep(_, _)
Rep(c, n) == IF n = 0 THEN "" ELSE c \o Rep(c, n - 1)

\* The arguments: a run of one character of the identifier alphabet,
\* followed by nothing, by white space or by other characters.
Candidates ==
    {Rep(c, n) \o tail : c \in {"a", "Z", "7", "_", "-"}, n \in 0..MaxRun,
                         tail \in {"", "\n", " ", "!", "b\n", "\n\n", "\nb"}}

InitValidate ==
    /\ lib = [RequestBlocked |-> TRUE, YouTubeRequestFailed |-> TRUE]
    /\ pc = "idle"
    /\ op = "none"
    /\ request \in {Request(s, "", "") : s \in Candidates}
    /\ video_id = ""
    /\ language_codes = <<>>
    /\ max_retries = 0
    /\ attempt = -1
    /\ last_error = None
    /\ transcript = NoTrack
    /\ used_language = "None"
    /\ delay = 0
    /\ fetched = Running
    /\ result = NoResult
    /\ listCalls = 0
    /\ fetchCalls = 0
    /\ passedIds = {}
    /\ sleeps = <<>>
    /\ listing = <<>>
    /\ lastOutcome = NoOutcome
    /\ pending = <<>>
    /\ answered = <<>>
    /\ cancelled = FALSE

\* A caller calls validate_video_id(video_id).
ValidateVideoId ==
    /\ pc = "idle"
    /\ op' = "validate_video_id"
    /\ result' = Return(validate_video_id(request.input), None)
    /\ pc' = "done"
    /\ UNCHANGED <<lib, server, request, frame, fetched, observed>>

SpecValidate == InitValidate /\ [][ValidateVideoId]_vars

-----------------------------------------------------------------------------
(* format_transcript_text called on its own.                               *)

\* The longest segment sequence of an argument of the model.
MaxSegments == 2

\* The segments of the arguments: dicts and snippets, texts with and
\* without white space around them, starts below and above an hour, a dict
\* without the text key, one without the start key, a snippet and a dict
\* whose text is None.
Segments ==
    {Segment("dict", "hello", 654, 10),
     Segment("dict", "  ", 700, 25),
     Segment("snippet", " never \"gonna\"\n", 36005, 31),
     Segment("snippet", "\tgive you\nup ", 59999, 12),
     Segment("dict", "x", 60000, 0),
     Without(Segment("dict", "", 90, 5), {"text"}),
     Without(Segment("dict", "no start", 0, 5), {"start"}),
     WithNone(Segment("snippet", "", 36100, 0), {"text"}),
     WithNone(Segment("dict", "", 20, 0), {"text"})}

InitFormat ==
    /\ lib = [RequestBlocked |-> TRUE, YouTubeRequestFailed |-> TRUE]
    /\ pc = "idle"
    /\ op = "none"
    /\ request = NoRequest
    /\ video_id = ""
    /\ language_codes = <<>>
    /\ max_retries = 0
    /\ attempt = -1
    /\ last_error = None
    /\ transcript = NoTrack
    /\ used_language = "None"
    /\ delay = 0
    /\ fetched \in {Returned(data, "en") : data \in SeqsUpTo(Segments, MaxSegments)}
    /\ result = NoResult
    /\ listCalls = 0
    /\ fetchCalls = 0
    /\ passedIds = {}
    /\ sleeps = <<>>
    /\ listing = <<>>
    /\ lastOutcome = NoOutcome
    /\ pending = <<>>
    /\ answered = <<>>
    /\ cancelled = FALSE

\* A caller calls format_transcript_text(transcript_data).
FormatTranscriptText ==
    /\ pc = "idle"
    /\ op' = "format_transcript_text"
    /\ LET text == format_transcript_text(fetched.data)
       IN  result' = IF text.raised THEN Escapes(text.exc)
                     ELSE Return(text.value, None)
    /\ pc' = "done"
    /\ UNCHANGED <<lib, server, request, frame, fetched, observed>>

SpecFormat == InitFormat /\ [][FormatTranscriptText]_vars

-----------------------------------------------------------------------------
(* extract_video_id called on its own.                                     *)

\* Video identifiers, and strings that are none: too short, too long, with
\* a trailing newline, with a character outside the alphabet.
VideoIdentifiers == {"dQw4w9WgXcQ", "aaaaaaaaaaa", "x_Y-z012345", "-_-_-_-_-_-"}

NoIdentifiers ==
    {"abcdefghij", "abcdefghijkl", "abcdefghij\n", "dQw4w9WgXcQ\n", "abcdefghij!"}

\* What the model writes before and after them.
UrlPrefixes ==
    {"https://www.youtube.com/watch?v=", "https://youtu.be/",
     "https://www.youtube.com/embed/", "https://www.youtube.com/v/",
     "https://www.youtube.com/watch?feature=share&v=", "youtu.be/", "v=", ""}

UrlSuffixes == {"", "&t=1", "?t=1"}

\* The arguments.
References ==
    {prefix \o x \o suffix : prefix \in UrlPrefixes,
                              x \in VideoIdentifiers \cup NoIdentifiers,
                              suffix \in UrlSuffixes}
    \cup {"not a url", ""}

InitExtract ==
    /\ lib = [RequestBlocked |-> TRUE, YouTubeRequestFailed |-> TRUE]
    /\ pc = "idle"
    /\ op = "none"
    /\ request \in {Request(s, "", "") : s \in References}
    /\ video_id = ""
    /\ language_codes = <<>>
    /\ max_retries = 0
    /\ attempt = -1
    /\ last_error = None
    /\ transcript = NoTrack
    /\ used_language = "None"
    /\ delay = 0
    /\ fetched = Running
    /\ result = NoResult
    /\ listCalls = 0
    /\ fetchCalls = 0
    /\ passedIds = {}
    /\ sleeps = <<>>
    /\ listing = <<>>
    /\ lastOutcome = NoOutcome
    /\ pending = <<>>
    /\ answered = <<>>
    /\ cancelled = FALSE

\* A caller calls extract_video_id(url).
ExtractVideoId ==
    /\ pc = "idle"
    /\ op' = "extract_video_id"
    /\ LET extracted == extract_video_id(request.input)
       IN  result' = IF extracted.raised THEN Escapes(extracted.exc)
                     ELSE Return(extracted.value, None)
    /\ pc' = "done"
    /\ UNCHANGED <<lib, server, request, frame, fetched, observed>>

SpecExtract == InitExtract /\ [][ExtractVideoId]_vars

-----------------------------------------------------------------------------
(* Properties of the retry loop, checked under Spec.                       *)

Range(q) == {q[i] : i \in 1..Len(q)}

\* The failure kinds, as the specification names them.
TerminalKinds == {"TranscriptsDisabled", "VideoUnavailable", "NoTranscriptFound"}

\* The latest provider call ended attempt n with an error of one of kinds.
AttemptEndedWith(kinds) == lastOutcome.type \in kinds

\* The error the provider raised in the latest call.
LatestError == Exc(lastOutcome.type, ProviderMessage(lastOutcome.type), lastOutcome.attempt)

\* C1: an attempt that ends with transcripts-disabled, video-unavailable or
\* no-transcript-found (zero tracks included) ends the call at once with
\* that error: after n attempts there are n listing calls, the n - 1 sleeps
\* of the earlier attempts, the call has raised the error of attempt n, and
\* from then on no provider call and no sleep happens.
C1_TerminalFailsAtOnce ==
    /\ [](AttemptEndedWith(TerminalKinds) =>
            /\ pc = "returned"
            /\ fetched.kind = "raise"
            /\ fetched.exc.type = lastOutcome.type
            /\ fetched.exc.attempt = lastOutcome.attempt
            /\ listCalls = lastOutcome.attempt
            /\ fetchCalls <= lastOutcome.attempt
            /\ Len(sleeps) = lastOutcome.attempt - 1)
    /\ [][AttemptEndedWith(TerminalKinds) =>
            UNCHANGED <<listCalls, fetchCalls, sleeps, fetched>>]_vars

\* The third attempt finds no track at all, after two retried failures.
C1_Witness ==
    /\ lastOutcome.type = "NoTranscriptFound"
    /\ lastOutcome.attempt = 3
    /\ fetched.exc.msg = "No transcripts available for video " \o video_id
    /\ Len(sleeps) = 2
    /\ fetched.kind = "raise"
    /\ listCalls = 3

\* C2: when the content fetch of attempt k succeeds (every earlier attempt
\* having been retried), the call returns the segments of that fetch and the
\* language code of the track selected in attempt k, with no error, and no
\* provider call or sleep follows.
C2_SuccessReturnsAttemptResult ==
    /\ [](lastOutcome.type = "ok" /\ lastOutcome.call = "fetch" =>
            /\ pc = "returned"
            /\ fetched.kind = "return"
            /\ fetched.exc = None
            /\ fetched.data = lastOutcome.data
            /\ fetched.used_language = transcript.language_code
            /\ listCalls = lastOutcome.attempt
            /\ fetchCalls <= lastOutcome.attempt
            /\ Len(sleeps) = lastOutcome.attempt - 1)
    /\ [][lastOutcome.type = "ok" /\ lastOutcome.call = "fetch" =>
            UNCHANGED <<listCalls, fetchCalls, sleeps, fetched>>]_vars

\* Two failures retried after 1 s and 2 s, then success on attempt 3 of 3,
\* on a fallback track.
C2_Witness ==
    /\ max_retries = 3
    /\ lastOutcome = [call |-> "fetch", type |-> "ok", attempt |-> 3,
                      data |-> fetched.data]
    /\ fetched.data # <<>>
    /\ sleeps = <<1, 2>>
    /\ fetched.kind = "return"
    /\ language_codes = <<"fr">>
    /\ fetched.used_language = "es"

\* The text of the parse-failure error names the attempt count n.
NamesAttemptCount(msg, n) ==
    HasAt(msg, 1, "Failed to parse transcript XML after " \o ToString(n) \o " attempts")

\* C3: a call that does not succeed raises the error of its final attempt:
\* the parse-failure error naming max_retries after a final parse failure
\* of the content, the provider's own error after any other final failure,
\* and the retries-exhausted error when no attempt was made; and a call
\* that returns returns what its final fetch gave.
C3_FailsWithFinalError ==
    pc = "returned" =>
        /\ fetched.kind \in {"return", "raise"}
        /\ fetched.kind = "return" =>
              lastOutcome.type = "ok" /\ lastOutcome.call = "fetch"
        /\ fetched.kind = "raise" =>
              /\ lastOutcome.type # "ok"
              /\ IF lastOutcome.call = "none"
                 THEN fetched.exc = Exc("Exception", "All retry attempts failed", 0)
                 ELSE IF lastOutcome.call = "fetch" /\ lastOutcome.type = "ParseError"
                 THEN /\ fetched.exc.type = "Exception"
                      /\ NamesAttemptCount(fetched.exc.msg, max_retries)
                      /\ fetched.exc.attempt = lastOutcome.attempt
                      /\ lastOutcome.attempt = max_retries
                 ELSE IF lastOutcome.type = "NoTranscriptFound"
                 THEN /\ fetched.exc.type = "NoTranscriptFound"
                      /\ fetched.exc.attempt = lastOutcome.attempt
                 ELSE fetched.exc = LatestError

\* A failed request on the last of three attempts, after two retries: the
\* call raises that third error.
C3_Witness ==
    /\ pc = "returned"
    /\ max_retries = 3
    /\ lastOutcome.type = "YouTubeRequestFailed"
    /\ lastOutcome.attempt = 3
    /\ fetched = Raised(LatestError)
    /\ sleeps = <<1, 10>>

\* What is left of a call: 0 when it has returned, and otherwise more the
\* more attempts are left and the earlier the position in the attempt.
Measure ==
    IF pc = "returned" THEN 0
    ELSE 4 * (max_retries - attempt)
         + (CASE pc = "list_transcripts" -> 3
              [] pc = "fetch" -> 2
              [] pc = "sleep" -> 1
              [] OTHER -> 0)

\* C4: a call makes at most max_retries attempts, so at most max_retries
\* listing calls and at most max_retries content fetches, and it
\* terminates: every step of a call lowers Measure, a natural number.
C4_BoundedAttempts ==
    /\ [](/\ listCalls <= max_retries
          /\ fetchCalls <= max_retries
          /\ fetchCalls <= listCalls
          /\ attempt < max_retries \/ max_retries = 0
          /\ Measure \in Nat)
    /\ [][pc # "idle" => Measure' < Measure]_vars

\* A call that used all three of its attempts, each with both provider calls.
C4_Witness ==
    /\ pc = "returned"
    /\ max_retries = 3
    /\ listCalls = 3
    /\ fetchCalls = 3

\* The first preferred language code that has a track in the enumeration:
\* its position in the preference list, 0 when there is none.
FirstAvailablePreference(codes, tracks) ==
    LET hits == {i \in 1..Len(codes) :
                    \E t \in Range(tracks) : t.language_code = codes[i]}
    IN  IF hits = {} THEN 0 ELSE Min(hits)

\* C6: the track selected in an attempt is the track of the first preferred
\* language code that has one, and otherwise the first track of the
\* enumeration, whose language code is then the used language; this is the
\* language a successful call returns.
C6_TrackSelection ==
    LET i == FirstAvailablePreference(language_codes, listing)
    IN  /\ pc = "fetch" =>
              /\ listing # <<>>
              /\ transcript \in Range(listing)
              /\ transcript.language_code = used_language
              /\ IF i # 0 THEN used_language = language_codes[i]
                 ELSE transcript = listing[1]
        /\ pc = "returned" /\ fetched.kind = "return" =>
              /\ fetched.used_language = used_language
              /\ transcript.language_code = used_language

\* Preference ["en"] and no "en" track: the call returns the used language
\* "es" of the fallback track.
C6_Witness ==
    /\ language_codes = <<"en">>
    /\ pc = "returned"
    /\ fetched.kind = "return"
    /\ transcript = Track("es", "Spanish", FALSE, FALSE)
    /\ fetched.used_language = "es"

\* The delay the specification gives for a retried failure of attempt n.
ClaimedDelay(type, n) ==
    CASE type = "ParseError" -> 2 ^ (n - 1)
      [] type = "RequestBlocked" -> 5 * n
      [] type = "YouTubeRequestFailed" -> 1 * n

\* The latest provider call ended with one of the three retryable failures:
\* a parse failure of the content, request-blocked, or a failed request.
EndedRetryable ==
    \/ lastOutcome.call = "fetch" /\ lastOutcome.type = "ParseError"
    \/ lastOutcome.type \in {"RequestBlocked", "YouTubeRequestFailed"}

\* C5: the delay taken after a retryable failure of attempt n < max_retries
\* is 2^(n-1) s after a parse failure of the content, 5n s after
\* request-blocked and n s after a failed request; there is exactly one
\* delay between two consecutive attempts, and none after the final
\* attempt, a success or a terminal failure.
C5_BackoffDelays ==
    LET n == lastOutcome.attempt
        d == ClaimedDelay(lastOutcome.type, n)
    IN  /\ EndedRetryable /\ n < max_retries =>
              \/ pc = "sleep" /\ delay = d /\ Len(sleeps) = n - 1
              \/ /\ pc \in {"for", "list_transcripts"}
                 /\ Len(sleeps) = n
                 /\ sleeps[n] = d
        /\ pc = "sleep" => n < max_retries /\ Len(sleeps) = n - 1
        /\ pc \in {"list_transcripts", "fetch"} => Len(sleeps) = attempt
        /\ pc = "returned" =>
              Len(sleeps) = IF lastOutcome.call = "none" THEN 0 ELSE n - 1

\* C5 holds of the builds in which both optional imports succeed.
C5_BackoffDelaysWithBothClasses ==
    lib.RequestBlocked /\ lib.YouTubeRequestFailed => C5_BackoffDelays

\* C19: at every attempt n < max_retries the delays are strictly tiered:
\* the delay after a parse failure of the content is shorter than the delay
\* after a failed request, which is shorter than the delay after
\* request-blocked.  Stated of the delay the loop is about to sleep, against
\* the delays of the other two except clauses at the same attempt.
C19_DelaysTiered ==
    pc = "sleep" =>
        LET parse == ParseBackoff(attempt)
            failed == FailedBackoff(attempt)
            blocked == BlockedBackoff(attempt)
        IN  /\ lastOutcome.attempt = attempt + 1
            /\ lastOutcome.attempt < max_retries
            /\ (lastOutcome.call = "fetch" /\ lastOutcome.type = "ParseError") =>
                  delay < failed /\ failed < blocked
            /\ lastOutcome.type = "YouTubeRequestFailed" =>
                  parse < delay /\ delay < blocked
            /\ lastOutcome.type = "RequestBlocked" =>
                  parse < failed /\ failed < delay

\* The part of C19 that holds for the attempts of the model: the delay
\* after request-blocked is longer than the delay after a parse failure.
C19_BlockedLongerThanParse ==
    pc = "sleep" =>
        /\ (lastOutcome.call = "fetch" /\ lastOutcome.type = "ParseError") =>
              delay < BlockedBackoff(attempt)
        /\ lastOutcome.type = "RequestBlocked" => ParseBackoff(attempt) < delay

\* C20: the error remembered from a failed request of attempt k is raised
\* by the call only if no later attempt superseded it: when a later attempt
\* ended the call, by success, by a terminal failure, by request-blocked
\* with no attempt left or by a parse failure with no attempt left, the
\* call's outcome is the outcome of that later attempt and not the
\* remembered error.
C20_RememberedErrorSuperseded ==
    (/\ pc = "returned"
     /\ last_error # None
     /\ last_error.attempt < lastOutcome.attempt) =>
        /\ fetched.kind \in {"return", "raise"}
        /\ fetched.kind = "return" =>
              /\ lastOutcome.type = "ok"
              /\ fetched.exc = None
              /\ fetched.data = lastOutcome.data
        /\ fetched.kind = "raise" =>
              /\ fetched.exc # last_error
              /\ fetched.exc.attempt = lastOutcome.attempt
              /\ \/ fetched.exc.type = lastOutcome.type
                 \/ /\ lastOutcome.call = "fetch"
                    /\ lastOutcome.type = "ParseError"
                    /\ fetched.exc = ParseFailure(attempt, max_retries)

\* A failed request at attempt 1 is remembered, attempt 2 is blocked and
\* retried, and attempt 3 of 3 is blocked: the call raises RequestBlocked.
C20_Witness ==
    /\ pc = "returned"
    /\ max_retries = 3
    /\ last_error = Exc("YouTubeRequestFailed", ProviderMessage("YouTubeRequestFailed"), 1)
    /\ lastOutcome.attempt = 3
    /\ lastOutcome.type = "RequestBlocked"
    /\ sleeps = <<1, 10>>
    /\ fetched = Raised(Exc("RequestBlocked", ProviderMessage("RequestBlocked"), 3))

\* The latest failure of attempt n was retried: the loop is at the sleep of
\* d seconds, or has taken it as its n-th sleep and gone on.
RetriedAfter(n, d) ==
    \/ pc = "sleep" /\ delay = d /\ Len(sleeps) = n - 1
    \/ pc \in {"for", "list_transcripts"} /\ Len(sleeps) = n /\ sleeps[n] = d

\* C23: request-blocked and a failed request are retried the same way
\* whether the listing call or the content fetch raised them; a parse
\* failure is retried only when the content fetch raised it, and a parse
\* failure of the listing call ends the call at once with that error, with
\* no further attempt and no delay.
C23_ParseFailureOfListingNotRetried ==
    LET n == lastOutcome.attempt
        type == lastOutcome.type
    IN  /\ (type \in {"RequestBlocked", "YouTubeRequestFailed"} /\ n < max_retries) =>
              RetriedAfter(n, IF IsInstance(Exc(type, "", n), RequestBlocked)
                              THEN 5 * n ELSE n)
        /\ (type \in {"RequestBlocked", "YouTubeRequestFailed"} /\ n = max_retries) =>
              \/ pc = "for" /\ last_error.type = type /\ last_error.attempt = n
              \/ /\ pc = "returned"
                 /\ fetched.kind = "raise"
                 /\ fetched.exc.type = type
                 /\ fetched.exc.attempt = n
        /\ (type = "ParseError" /\ lastOutcome.call = "fetch" /\ n < max_retries) =>
              RetriedAfter(n, 2 ^ (n - 1))
        /\ (type = "ParseError" /\ lastOutcome.call = "list") =>
              /\ pc = "returned"
              /\ fetched.kind = "raise"
              /\ fetched.exc.type = "ParseError"
              /\ fetched.exc.attempt = n
              /\ listCalls = n
              /\ Len(sleeps) = n - 1

\* C23 holds of the builds in which both optional imports succeed.
C23_WithBothClasses ==
    lib.RequestBlocked /\ lib.YouTubeRequestFailed => C23_ParseFailureOfListingNotRetried

\* C24: every attempt requests the listing again and selects a track from
\* that listing alone, whatever an earlier attempt selected; a successful
\* call returns the segments of the fetch of its last attempt with the
\* language code of the track selected from that attempt's listing.
C24_SelectionFromOwnListing ==
    /\ [](/\ pc = "list_transcripts" => listCalls = attempt
          /\ pc = "fetch" => listCalls = attempt + 1 /\ lastOutcome.attempt = attempt + 1)
    /\ [][(pc = "list_transcripts" /\ pc' = "fetch") =>
            LET i == FirstAvailablePreference(language_codes, listing')
            IN  /\ listCalls' = listCalls + 1
                /\ listing' # <<>>
                /\ transcript' \in Range(listing')
                /\ used_language' = transcript'.language_code
                /\ IF i # 0 THEN used_language' = language_codes[i]
                   ELSE transcript' = listing'[1]]_vars
    /\ [][(pc = "fetch" /\ fetched'.kind = "return") =>
            /\ transcript \in Range(listing)
            /\ transcript' = transcript
            /\ fetched'.used_language = transcript.language_code
            /\ fetched'.data = lastOutcome'.data
            /\ lastOutcome'.attempt = listCalls
            /\ listCalls' = listCalls]_vars

\* The second attempt, after a first that failed, returns the segments of
\* the auto-generated English track its listing offered for the preference
\* ["fr", "en"].
C24_Witness ==
    /\ pc = "returned"
    /\ fetched.kind = "return"
    /\ language_codes = <<"fr", "en">>
    /\ lastOutcome.attempt = 2
    /\ listCalls = 2
    /\ Len(sleeps) = 1
    /\ transcript = Track("en", "English (auto-generated)", TRUE, FALSE)
    /\ fetched.used_language = "en"
    /\ fetched.data # <<>>

-----------------------------------------------------------------------------
(* Properties of the public operations, checked under SpecOps.             *)

PublicOperations ==
    {"get_transcript_from_url", "get_transcript_from_id",
     "list_available_transcripts", "get_transcript_resource"}

\* C7: each of the four public operations ends by returning a string,
\* whatever its input and whatever the provider did, also when resolution,
\* listing, track selection, content fetch, retry exhaustion or rendering
\* raised an error: no error leaves the operation.
C7_OperationsReturnStrings ==
    /\ result.kind # "raise"
    /\ (pc = "done" /\ op \in PublicOperations) =>
           /\ result.kind = "return"
           /\ result.value \in STRING
           /\ result.exc = None

\* An operation returned a string for an error that its rendering raised.
C7_Witness ==
    /\ pc = "done"
    /\ op = "get_transcript_resource"
    /\ fetched.kind = "return"
    /\ result.kind = "return"
    /\ result.caught # None
    /\ result.caught.type = "AttributeError"

StartsWith(s, prefix) ==
    Len(s) >= Len(prefix) /\ SubSeq(s, 1, Len(prefix)) = prefix

\* The errors of the taxonomy, as the code raises them: the invalid
\* reference, the provider's five signals, the parse failure of the last
\* attempt and the exhaustion of the retries.
InTaxonomy(e) ==
    \/ e.type \in {"YouTubeURLError", "TranscriptsDisabled", "VideoUnavailable",
                   "NoTranscriptFound", "RequestBlocked", "YouTubeRequestFailed",
                   "ParseError"}
    \/ e.type = "Exception" /\ StartsWith(e.msg, "Failed to parse transcript XML")
    \/ e.type = "Exception" /\ e.msg = "All retry attempts failed"

\* The strings that are prefixed by the category of the error e.
PrefixedByCategory(e, value) ==
    CASE e.type = "YouTubeURLError" -> StartsWith(value, "URL Error: ")
      [] e.type = "TranscriptsDisabled" ->
            value = "Error: Transcripts are disabled for this video"
      [] e.type = "VideoUnavailable" ->
            value = "Error: Video is unavailable or does not exist"
      [] e.type = "RequestBlocked" ->
            value = "Error: Request blocked. Please try again later"
      [] e.type = "YouTubeRequestFailed" ->
            value = "Error: YouTube request failed. Please try again later"
      [] OTHER -> StartsWith(value, "Error: ")

\* C8: at the boundary of a public operation an error of the taxonomy
\* becomes a string prefixed by its category, and any other error becomes
\* "Unexpected error: " followed by its message.
C8_ErrorsRenderedByCategory ==
    (pc = "done" /\ op \in PublicOperations /\ result.caught # None) =>
        IF InTaxonomy(result.caught)
        THEN PrefixedByCategory(result.caught, result.value)
        ELSE result.value = "Unexpected error: " \o result.caught.msg

\* Exactly 11 characters, all of [A-Za-z0-9_-].
IsVideoId(s) == Len(s) = IdLen /\ AllIn(s, 1, Len(s), IdChar)

\* C9: every video identifier a public operation passes to the provider,
\* for a listing or for a fetch, is exactly 11 characters of [A-Za-z0-9_-].
C9_ProviderGetsVideoIds ==
    op \in PublicOperations => \A id \in passedIds : IsVideoId(id)

\* The operation does not accept its input as a reference to a video:
\* the identifier fails validate_video_id, no identifier can be extracted
\* from the URL, or, for the listing, both.
RejectsInput ==
    CASE op = "get_transcript_from_url" -> extract_video_id(request.input).raised
      [] op \in {"get_transcript_from_id", "get_transcript_resource"} ->
            ~validate_video_id(request.input)
      [] op = "list_available_transcripts" ->
            /\ extract_video_id(request.input).raised
            /\ ~validate_video_id(request.input)
      [] OTHER -> FALSE

\* C12: an operation that does not accept its input returns an error
\* string at once, without any call to the provider and without any delay.
C12_InvalidReferenceRejectedLocally ==
    RejectsInput =>
        /\ pc = "done"
        /\ result.kind = "return"
        /\ \/ StartsWith(result.value, "Error: Invalid video ID")
           \/ StartsWith(result.value, "URL Error: Could not extract valid video ID")
        /\ listCalls = 0
        /\ fetchCalls = 0
        /\ passedIds = {}
        /\ sleeps = <<>>

\* get_transcript_from_id("invalid_id") has returned its error string.
C12_Witness ==
    /\ op = "get_transcript_from_id"
    /\ request.input = "invalid_id"
    /\ pc = "done"
    /\ result.value = "Error: Invalid video ID format. Must be 11 characters: invalid_id"
    /\ listCalls = 0

\* The strings the operations return for errors.
IsErrorString(value) ==
    \/ StartsWith(value, "Error: ")
    \/ StartsWith(value, "URL Error: ")
    \/ StartsWith(value, "Unexpected error: ")

\* C14: list_available_transcripts, given a reference it accepts, calls the
\* provider's listing exactly once whatever the outcome, never fetches and
\* never sleeps; transcripts-disabled and video-unavailable give the error
\* strings they give in the fetch operations, every other provider error
\* gives an error string, and a listing with zero tracks gives
\* "No transcripts available for video <id>", which is no error string.
C14_ListingIsNotRetried ==
    (op = "list_available_transcripts" /\ ~RejectsInput) =>
        /\ pc = "done"
        /\ result.kind = "return"
        /\ listCalls = 1
        /\ fetchCalls = 0
        /\ sleeps = <<>>
        /\ lastOutcome.call = "list" /\ lastOutcome.attempt = 1
        /\ lastOutcome.type = "TranscriptsDisabled" =>
              result.value = "Error: Transcripts are disabled for this video"
        /\ lastOutcome.type = "VideoUnavailable" =>
              result.value = "Error: Video is unavailable or does not exist"
        /\ lastOutcome.type # "ok" => IsErrorString(result.value)
        /\ lastOutcome.type = "ok" =>
              /\ ~IsErrorString(result.value)
              /\ listing = <<>> <=>
                    result.value = "No transcripts available for video " \o video_id

\* The listing was blocked: one call, no delay, an error string.
C14_Witness ==
    /\ op = "list_available_transcripts"
    /\ pc = "done"
    /\ lastOutcome.type = "RequestBlocked"
    /\ listCalls = 1
    /\ sleeps = <<>>
    /\ result.value = "Error: Request blocked. Please try again later"

\* What get_transcript_from_id(id) returns, with language "en" and format
\* "text", when its retry loop ends as loop did.
FromIdResult(id, loop) ==
    LET text == format_transcript_text(loop.data)
    IN  IF ~validate_video_id(id)
        THEN Return("Error: Invalid video ID format. Must be 11 characters: " \o id,
                    None)
        ELSE IF loop.kind = "raise" THEN Boundary("get_transcript_from_id", loop.exc)
        ELSE IF text.raised THEN Boundary("get_transcript_from_id", text.exc)
        ELSE Return("Transcript for video " \o id \o " (Language: "
                    \o loop.used_language \o "):\n\n" \o text.value, None)

\* C15: get_transcript_resource(video_id) returns what
\* get_transcript_from_id(video_id) returns with language "en" and format
\* "text" for the same provider outcomes: both run the retry loop with the
\* same arguments and, however it ends, return the same string, also for
\* an invalid identifier and for a failure.
C15_ResourceIsFromIdWithDefaults ==
    LET resource == op = "get_transcript_resource"
        from_id == /\ op = "get_transcript_from_id"
                   /\ request.language = "en"
                   /\ request.format_type = "text"
    IN  (resource \/ from_id) =>
            /\ request = Request(request.input, "en", "text")
            /\ pc # "done" =>
                  /\ video_id = request.input
                  /\ language_codes = <<"en">>
                  /\ max_retries = DefaultMaxRetries
            /\ pc = "done" => result = FromIdResult(request.input, fetched)

\* The resource accessor returned the text of a transcript.
C15_Witness ==
    /\ op = "get_transcript_resource"
    /\ pc = "done"
    /\ fetched.kind = "return"
    /\ StartsWith(result.value,
                  "Transcript for video dQw4w9WgXcQ (Language: es):\n\n[01:05] hello")

\* C18: in get_transcript_from_url and get_transcript_from_id the language
\* preference passed to the retry loop is [L, "en"] for a requested language
\* L other than "en" and ["en"] for "en": L is first, "en" is last, and
\* "en" occurs once.
C18_LanguagePreference ==
    LET L == request.language
        p == language_codes
    IN  (/\ op \in {"get_transcript_from_url", "get_transcript_from_id"}
         /\ pc # "idle"
         /\ ~RejectsInput) =>
            /\ p = IF L = "en" THEN <<"en">> ELSE <<L, "en">>
            /\ p[1] = L
            /\ p[Len(p)] = "en"
            /\ Cardinality({i \in DOMAIN p : p[i] = "en"}) = 1

\* get_transcript_from_url was asked for Spanish, the loop got ["es", "en"]
\* and returned the English track.
C18_Witness ==
    /\ op = "get_transcript_from_url"
    /\ request.language = "es"
    /\ language_codes = <<"es", "en">>
    /\ fetched.kind = "return"
    /\ fetched.used_language = "en"
    /\ pc = "done"

\* The build lacks one of the two optional classes of the library.
LacksOptionalClass == ~lib.RequestBlocked \/ ~lib.YouTubeRequestFailed

\* The part of C21 that holds: no failure of the latest provider call is
\* turned into a successful result.
C21_NoSilentSuccess ==
    (pc = "done" /\ lastOutcome.call # "none" /\ lastOutcome.type # "ok") =>
        IsErrorString(result.value)

\* C21: in a build that lacks the request-blocked or the request-failed
\* class, a failed request is retried after 1 * n seconds and reported as a
\* request failure, an error outside the taxonomy is not retried and is
\* reported as "Unexpected error", and no failure becomes a successful
\* result.
C21_FallbackIsGenericFailure ==
    LacksOptionalClass =>
        /\ lastOutcome.type = "YouTubeRequestFailed" =>
              /\ pc = "sleep" => delay = 1 * lastOutcome.attempt
              /\ pc = "done" =>
                    result.value = "Error: YouTube request failed. Please try again later"
        /\ lastOutcome.type = "OtherError" =>
              /\ pc \in {"returned", "done"}
              /\ pc = "done" =>
                    result.value = "Unexpected error: " \o ProviderMessage("OtherError")
        /\ C21_NoSilentSuccess

-----------------------------------------------------------------------------
(* Properties of the server with several requests, checked under           *)
(* SpecServer.                                                             *)

\* C13: a backoff sleep of one request does not block the others: while a
\* request is in a backoff delay, a request that is waiting can start.
C13_SleepDoesNotBlockOthers ==
    (pc = "sleep" /\ pending # <<>>) => ENABLED Dispatch

\* The result of list_available_transcripts, from its argument and from
\* what the provider did in its one call.
ListResult(r, id, outcome, tracks) ==
    IF outcome = NoOutcome
    THEN Return("Error: Invalid video ID or URL: " \o r.input, None)
    ELSE IF outcome.type = "ok" THEN Return(FormatList(id, tracks), None)
    ELSE Boundary("list_available_transcripts",
                  Exc(outcome.type, ProviderMessage(outcome.type), 1))

\* C17: a request reads nothing that an earlier request wrote.  Whatever
\* the earlier requests left behind, the step that starts a request's
\* handler gives the attempt counter, the remembered error, the selected
\* track, the used language and everything else the handler reads later
\* their initial values or values computed from the request's arguments;
\* and a handler that ends in that same step ends with a result computed
\* from its arguments and from the provider's outcome in that step.
C17_RequestsAreStateless ==
    [][(pc = "idle" /\ pc' # "idle") =>
          /\ Call(op', request') = Head(pending)
          /\ pc' \in {"for", "done"}
          /\ pc' = "for" =>
                /\ attempt' = -1
                /\ last_error' = None
                /\ transcript' = NoTrack
                /\ used_language' = "None"
                /\ delay' = 0
                /\ fetched' = Running
                /\ result' = NoResult
                /\ video_id' = request'.input
                /\ language_codes' = language_preference(request'.language)
                /\ max_retries' = DefaultMaxRetries
                /\ listCalls' = 0 /\ fetchCalls' = 0 /\ sleeps' = <<>>
                /\ passedIds' = {} /\ lastOutcome' = NoOutcome
          /\ pc' = "done" =>
                /\ op' = "list_available_transcripts"
                /\ fetchCalls' = 0 /\ sleeps' = <<>>
                /\ result' = ListResult(request', video_id', lastOutcome', listing')
      ]_vars

\* A request has been answered whose retry loop left a remembered error
\* behind, and a later request has ended with that error still in place.
C17_Witness ==
    /\ Len(answered) = 1
    /\ answered[1].op = "get_transcript_from_id"
    /\ op = "list_available_transcripts"
    /\ pc = "done"
    /\ last_error # None
    /\ attempt >= 1
    /\ result = Return(FormatList("dQw4w9WgXcQ", listing), None)

\* C22: once the caller has abandoned a request, in a backoff delay or
\* between attempts, no listing call and no content fetch is started for
\* that request.
C22_NoAttemptAfterCancel ==
    [][cancelled => listCalls' <= listCalls /\ fetchCalls' <= fetchCalls]_vars

-----------------------------------------------------------------------------
(* Properties of validate_video_id, checked under SpecValidate.            *)

\* C10: validate_video_id returns true for every string of exactly 11
\* characters of [A-Za-z0-9_-], and false for every string of another
\* length and for every string with a character outside that alphabet.
C10_ValidateIsExact ==
    (pc = "done" /\ op = "validate_video_id") =>
        (result.value <=> IsVideoId(request.input))

-----------------------------------------------------------------------------
(* Properties of format_transcript_text, checked under SpecFormat.         *)

\* The text of a segment after trimming; empty when the text is missing.
Trimmed(segment) ==
    IF "text" \in segment.absent \cup segment.null THEN "" ELSE strip(segment.text)

\* [MM:SS] of a start given in tenths of a second: MM = floor(start / 60)
\* and SS = floor(start) mod 60, in two digits at least.
Stamp(start) ==
    LET mm == start \div 600
        ss == (start \div 10) % 60
    IN  "[" \o (IF mm <= 9 THEN "0" ELSE "") \o ToString(mm) \o ":"
        \o (IF ss <= 9 THEN "0" ELSE "") \o ToString(ss) \o "]"

\* The lines of the segments, joined by single newlines.
RECURSIVE JoinLines(_)
JoinLines(segments) ==
    IF segments = <<>> THEN ""
    ELSE LET s == Head(segments)
             start == IF "start" \in s.absent THEN 0 ELSE s.start
         IN  Stamp(start) \o " " \o Trimmed(s)
             \o (IF Len(segments) > 1 THEN "\n" ELSE "")
             \o JoinLines(Tail(segments))

\* Malformed input: a dict whose text is None, or a start that is None.
Malformed(segment) ==
    \/ segment.shape = "dict" /\ "text" \in segment.null
    \/ "start" \in segment.null

\* C16: format_transcript_text returns, in the order of the segments, one
\* line "[MM:SS] <trimmed text>" for each segment whose trimmed text is not
\* empty, joined by single newlines; a segment whose trimmed text is empty
\* or whose text is missing gives no line and no error; so "hello" at
\* 65.4 s followed by "  " at 70 s gives exactly "[01:05] hello".
C16_TextLines ==
    (pc = "done" /\ op = "format_transcript_text") =>
        LET data == fetched.data
            kept == SelectSeq(data, LAMBDA s : Trimmed(s) # "")
        IN  /\ (\A i \in 1..Len(data) : ~Malformed(data[i])) =>
                  result = Return(JoinLines(kept), None)
            /\ data = <<Segment("dict", "hello", 654, 10),
                        Segment("dict", "  ", 700, 25)>>
                  => result.value = "[01:05] hello"

\* The example of the claim, and a later segment that is kept.
C16_Witness ==
    /\ pc = "done"
    /\ op = "format_transcript_text"
    /\ fetched.data = <<Segment("dict", "  ", 700, 25),
                        Segment("snippet", " never \"gonna\"\n", 36005, 31)>>
    /\ result.value = "[60:00] never \"gonna\""

-----------------------------------------------------------------------------
(* Properties of extract_video_id, checked under SpecExtract.              *)

\* C11: extract_video_id returns the capture of the first of its two
\* patterns, in their order, whose capture is exactly 11 characters of the
\* identifier alphabet, and fails with YouTubeURLError when neither pattern
\* gives such a capture; so the watch, youtu.be and embed URLs of a video
\* identifier x yield x, and "not a url" fails.
C11_ExtractFirstValidCapture ==
    (pc = "done" /\ op = "extract_video_id") =>
        LET url == request.input
            g1 == Pattern1Group(url)
            m2 == Pattern2Match(url)
        IN  /\ IF IsVideoId(g1) THEN result = Return(g1, None)
               ELSE IF m2.matched /\ IsVideoId(m2.group)
               THEN result = Return(m2.group, None)
               ELSE /\ result.kind = "raise"
                    /\ result.exc.type = "YouTubeURLError"
            /\ \A x \in VideoIdentifiers :
                  url \in {"https://www.youtube.com/watch?v=" \o x,
                           "https://youtu.be/" \o x,
                           "https://www.youtube.com/embed/" \o x}
                  => result = Return(x, None)
            /\ url = "not a url" => result.kind = "raise"

====
